---- MODULE Spec2Model ----
(***************************************************************************)
(* Model of scripts/generate_prompts.py: locating a Stryker mutation       *)
(* report, grouping the surviving mutants by mutator name and writing one  *)
(* prompt file per group.                                                  *)
(*                                                                         *)
(* Strings are sequences of one-character strings.  An optional JSON field *)
(* is a sequence of length at most one: <<>> when the key is absent and    *)
(* <<v>> when it is present with value v.                                  *)
(***************************************************************************)
EXTENDS Integers, Sequences, FiniteSets, TLC

VARIABLES
    baseExists,     \* StrykerOutput exists
    subdirs,        \* name of each entry of StrykerOutput |-> it holds coverage/stryker.json
    defaultExists,  \* coverage/stryker.json exists
    report,         \* the parsed JSON document of the report file
    dirExists,      \* the output directory exists
    outFiles,       \* file name |-> content, for the files of the output directory
    startFs,        \* history: the output directory as it was when the current run started
    pc,             \* position of the script
    run,            \* number of the current run of the script
    reportPath,     \* value returned by get_latest_report_path
    fi,             \* index of the file entry of the outer loop
    mi,             \* index of the mutant of the inner loop
    groupKeys,      \* keys of prompts_by_mutator in insertion order
    groups,         \* prompts_by_mutator: key |-> list of prompts
    wi,             \* index into groupKeys of the writing loop
    printed,        \* the group count of the summary line, <<>> before it is printed
    args,           \* arguments of a function called on its own
    ret             \* its result

vars == <<baseExists, subdirs, defaultExists, report, dirExists, outFiles, startFs,
          pc, run, reportPath, fi, mi, groupKeys, groups, wi, printed, args, ret>>

progVars == <<baseExists, subdirs, defaultExists, report, dirExists, outFiles, startFs,
              run, reportPath, fi, mi, groupKeys, groups, wi, printed>>

(***************************************************************************)
(* Bounds                                                                  *)
(***************************************************************************)
MaxNameLen == 3      \* length of a mutator name given to the sanitizer
MaxSrcLen == 4       \* length of a source text given to extract_original_line
MaxLine == 4         \* largest line number given to extract_original_line
MaxBelow == 3        \* how far below zero a line number given to extract_original_line goes
MaxPathLen == 4      \* length of a file path given to the prefix stripping
MaxPrefixLen == 2    \* length of the prefix given to the prefix stripping
MaxFiles == 2        \* file entries of a report
MaxMutants == 3      \* mutants of a report, over all its file entries
MaxRuns == 2         \* runs of the script over the same report
MaxSubdirs == 3      \* entries of StrykerOutput
MaxDirNameLen == 2   \* length of the name of an entry of StrykerOutput

(***************************************************************************)
(* Strings                                                                 *)
(***************************************************************************)
SeqsUpTo(S, n) == UNION {[1..k -> S] : k \in 0..n}

\* str.lower(), one character: the upper-case letters of the alphabets used
LowerChar(c) ==
    IF c = "A" THEN "a" ELSE IF c = "B" THEN "b" ELSE c

LowerStr(s) == [i \in 1..Len(s) |-> LowerChar(s[i])]

\* \w of a str pattern: Unicode letters and digits, and the underscore
\* ("\\u00e9" stands for the one character e-acute)
IsWordChar(c) == c \in {"a", "b", "c", "d", "A", "B", "1", "_", "\\u00e9"}

\* re.sub(r'\W+', repl, s): every maximal run of non-word characters becomes repl
RECURSIVE ReSubNonWordRuns(_, _)
ReSubNonWordRuns(repl, s) ==
    IF s = <<>> THEN <<>>
    ELSE IF IsWordChar(Head(s)) THEN <<Head(s)>> \o ReSubNonWordRuns(repl, Tail(s))
    ELSE LET run1 == CHOOSE n \in 1..Len(s) :
                        /\ \A i \in 1..n : ~IsWordChar(s[i])
                        /\ (n < Len(s) => IsWordChar(s[n + 1]))
         IN  repl \o ReSubNonWordRuns(repl, SubSeq(s, run1 + 1, Len(s)))

Suffix == <<"_prompts.txt">>

\* the file name of a group
FileNameOf(mutator) == ReSubNonWordRuns(<<>>, LowerStr(mutator)) \o Suffix

\* str.replace(old, ""): every non-overlapping occurrence, left to right
RECURSIVE ReplaceWithEmpty(_, _)
ReplaceWithEmpty(s, old) ==
    IF old = <<>> \/ Len(s) < Len(old) THEN s
    ELSE IF SubSeq(s, 1, Len(old)) = old
         THEN ReplaceWithEmpty(SubSeq(s, Len(old) + 1, Len(s)), old)
         ELSE <<Head(s)>> \o ReplaceWithEmpty(Tail(s), old)

LocalPathOf(file_path, base_path_to_strip) == ReplaceWithEmpty(file_path, base_path_to_strip)

IsLineBreak(c) == c \in {"\n", "\r"}

\* str.splitlines(): "\n", "\r" and "\r\n" end a line; no empty last line
RECURSIVE SplitLinesFrom(_, _, _)
SplitLinesFrom(s, cur, acc) ==
    IF s = <<>> THEN (IF cur = <<>> THEN acc ELSE Append(acc, cur))
    ELSE IF Head(s) = "\r" /\ Len(s) >= 2 /\ s[2] = "\n"
         THEN SplitLinesFrom(SubSeq(s, 3, Len(s)), <<>>, Append(acc, cur))
    ELSE IF IsLineBreak(Head(s))
         THEN SplitLinesFrom(Tail(s), <<>>, Append(acc, cur))
    ELSE SplitLinesFrom(Tail(s), Append(cur, Head(s)), acc)

SplitLines(s) == SplitLinesFrom(s, <<>>, <<>>)

IsSpace(c) == c \in {" ", "\t", "\n", "\r"}

\* str.strip()
RECURSIVE LStrip(_)
LStrip(s) == IF s # <<>> /\ IsSpace(Head(s)) THEN LStrip(Tail(s)) ELSE s

RECURSIVE RStrip(_)
RStrip(s) ==
    IF s # <<>> /\ IsSpace(s[Len(s)]) THEN RStrip(SubSeq(s, 1, Len(s) - 1)) ELSE s

Strip(s) == RStrip(LStrip(s))

NA == <<"N/A">>

Returned(v) == [raised |-> FALSE, value |-> v]
Raised == [raised |-> TRUE, value |-> <<>>]

\* list[i] of Python: a negative index counts from the end, IndexError outside
PyIndex(list, i) ==
    IF i >= 0
    THEN (IF i < Len(list) THEN Returned(list[i + 1]) ELSE Raised)
    ELSE (IF i >= 0 - Len(list) THEN Returned(list[Len(list) + i + 1]) ELSE Raised)

extract_original_line(source_code, line_number) ==
    LET lines == SplitLines(source_code)
    IN  IF line_number <= Len(lines)
        THEN LET e == PyIndex(lines, line_number - 1)
             IN  IF e.raised THEN Raised ELSE Returned(Strip(e.value))
        ELSE Returned(NA)

(***************************************************************************)
(* The functions called on their own                                       *)
(***************************************************************************)
NameChars == {"A", "a", "1", "_", " ", "/", "\\u00e9"}
SrcChars == {"x", " ", "\n", "\r"}
PathChars == {"p", "/"}

Idle ==
    /\ baseExists = FALSE /\ subdirs = <<>> /\ defaultExists = FALSE
    /\ report = [hasFiles |-> FALSE, files |-> <<>>]
    /\ dirExists = FALSE /\ outFiles = <<>> /\ startFs = <<>>
    /\ run = 0 /\ reportPath = <<>> /\ fi = 0 /\ mi = 0
    /\ groupKeys = <<>> /\ groups = <<>> /\ wi = 0 /\ printed = <<>>

InitSanitize ==
    /\ Idle
    /\ pc = "call"
    /\ args \in {<<n>> : n \in SeqsUpTo(NameChars, MaxNameLen)}
    /\ ret = <<>>

CallSanitize ==
    /\ pc = "call"
    /\ ret' = FileNameOf(args[1])
    /\ pc' = "returned"
    /\ UNCHANGED <<progVars, args>>

SpecSanitize == InitSanitize /\ [][CallSanitize]_vars

InitExtract ==
    /\ Idle
    /\ pc = "call"
    /\ args \in {<<s, n>> : s \in SeqsUpTo(SrcChars, MaxSrcLen), n \in (0 - MaxBelow)..MaxLine}
    /\ ret = <<>>

CallExtract ==
    /\ pc = "call"
    /\ ret' = extract_original_line(args[1], args[2])
    /\ pc' = "returned"
    /\ UNCHANGED <<progVars, args>>

SpecExtract == InitExtract /\ [][CallExtract]_vars

InitStrip ==
    /\ Idle
    /\ pc = "call"
    /\ args \in {<<p, b>> : p \in SeqsUpTo(PathChars, MaxPathLen),
                           b \in SeqsUpTo(PathChars, MaxPrefixLen)}
    /\ ret = <<>>

CallStrip ==
    /\ pc = "call"
    /\ ret' = LocalPathOf(args[1], args[2])
    /\ pc' = "returned"
    /\ UNCHANGED <<progVars, args>>

SpecStrip == InitStrip /\ [][CallStrip]_vars

(***************************************************************************)
(* get_latest_report_path                                                  *)
(***************************************************************************)
\* comparison of two str values: code point by code point, a proper prefix is smaller
RECURSIVE StrLess(_, _)
StrLess(a, b) ==
    IF b = <<>> THEN FALSE
    ELSE IF a = <<>> THEN TRUE
    ELSE IF Head(a) = Head(b) THEN StrLess(Tail(a), Tail(b))
    ELSE Head(a) = "1" /\ Head(b) = "2"

\* the same sort without reverse=True
RECURSIVE SortedByName_Ascending(_)
SortedByName_Ascending(names) ==
    IF names = {} THEN <<>>
    ELSE LET first == CHOOSE x \in names : \A y \in names : y = x \/ StrLess(x, y)
         IN  <<first>> \o SortedByName_Ascending(names \ {first})

\* sorted(..., key=lambda p: p.name, reverse=True)
RECURSIVE SortedByNameReverse(_)
SortedByNameReverse(names) ==
    IF names = {} THEN <<>>
    ELSE LET first == CHOOSE x \in names : \A y \in names : y = x \/ StrLess(y, x)
         IN  <<first>> \o SortedByNameReverse(names \ {first})

\* the loop over subdirs: the first one whose coverage/stryker.json exists
RECURSIVE FirstWithReport(_, _)
FirstWithReport(sorted, hasReport) ==
    IF sorted = <<>> THEN <<>>
    ELSE IF hasReport[Head(sorted)] THEN <<Head(sorted)>>
    ELSE FirstWithReport(Tail(sorted), hasReport)

DefaultReport == <<"coverage/stryker.json">>
SubdirReport(name) == <<"StrykerOutput", name, "coverage/stryker.json">>

get_latest_report_path(base_exists, entries, default_exists) ==
    LET found == IF base_exists
                 THEN FirstWithReport(SortedByNameReverse(DOMAIN entries), entries)
                 ELSE <<>>
    IN  IF found # <<>> THEN Returned(SubdirReport(found[1]))
        ELSE IF default_exists THEN Returned(DefaultReport)
        ELSE IF default_exists THEN Returned(DefaultReport)
        ELSE Raised

(***************************************************************************)
(* The report                                                              *)
(***************************************************************************)
None == <<>>
Some(v) == <<v>>

Mutant(status, line, replacement, mutatorName) ==
    [status |-> status, line |-> line, replacement |-> replacement,
     mutatorName |-> mutatorName]

NameAb == <<"A", "b">>
NameLowerAb == <<"a", "b">>
NameCD == <<"c", " ", "d">>

\* the mutant records a report is made of
MutantPool ==
    { Mutant(Some("Survived"), Some(1), Some(<<"r">>), Some(NameAb)),
      Mutant(Some("Survived"), Some(3), None, Some(NameLowerAb)),
      Mutant(Some("Survived"), Some(0), Some(<<"r">>), Some(NameCD)),
      Mutant(Some("Killed"), None, None, None),
      Mutant(Some("Killed"), Some(1), Some(<<"r">>), Some(NameAb)),
      Mutant(Some("Survived"), None, None, Some(NameCD)),
      Mutant(Some("Survived"), Some(1), None, None),
      Mutant(None, Some(1), None, Some(NameCD)) }

BasePathToStrip == <<"p", "/">>

\* the key of the i-th file entry: the first starts with the prefix, the
\* second contains it further on, the others do not contain it
FilePathOf(i) ==
    IF i = 1 THEN <<"p", "/", "a">>
    ELSE IF i = 2 THEN <<"a", "/", "p", "/", "b">>
    ELSE [k \in 1..i |-> "c"]

\* the "source" of the i-th file entry
FileSourceOf(i) ==
    IF i = 1 THEN Some(<<"x", "\n", " ", "y">>)
    ELSE IF i = 2 THEN None
    ELSE Some(<<"x">>)

\* the file entries made of the mutants ms, cut into n lists at the places cuts
FilesOf(ms, n, cuts) ==
    [i \in 1..n |->
        [path |-> FilePathOf(i),
         source |-> FileSourceOf(i),
         mutants |-> SubSeq(ms, (IF i = 1 THEN 0 ELSE cuts[i - 1]) + 1,
                                IF i = n THEN Len(ms) ELSE cuts[i])]]

\* the parsed document: without the "files" key it has no file entries
ReportOf(hasFiles, ms, n, cuts) ==
    [hasFiles |-> hasFiles, files |-> IF hasFiles THEN FilesOf(ms, n, cuts) ELSE <<>>]

\* the cuts are in order, and a report without file entries has no mutants
WellCut(ms, n, cuts) ==
    /\ (n = 0 => ms = <<>>)
    /\ \A i \in 1..(n - 2) : cuts[i] <= cuts[i + 1]

\* the reports of the runs that exercise the locator
FewReports ==
    {ReportOf(TRUE, <<Mutant(Some("Survived"), Some(1), Some(<<"r">>), Some(NameAb))>>,
              1, <<>>)}

DirNames == SeqsUpTo({"1", "2"}, MaxDirNameLen) \ {<<>>}

\* the contents of StrykerOutput over the entries names
SubdirChoices(names) == [names -> BOOLEAN]

StaleFiles ==
    [n \in {FileNameOf(NameLowerAb), <<"notes.txt">>} |-> <<<<"stale">>>>]

NoFiles == [n \in {} |-> <<>>]

Fs(dir, files) == [dir |-> dir, files |-> files]

InitWith(base_exists, entries, default_exists, rep, dir, files) ==
    /\ baseExists = base_exists
    /\ subdirs = entries
    /\ defaultExists = default_exists
    /\ report = rep
    /\ dirExists = dir
    /\ outFiles = files
    /\ startFs = Fs(dir, files)
    /\ pc = "main"
    /\ run = 1
    /\ reportPath = <<>>
    /\ fi = 0 /\ mi = 0
    /\ groupKeys = <<>>
    /\ groups = NoFiles
    /\ wi = 0
    /\ printed = <<>>
    /\ args = <<>>
    /\ ret = <<>>

\* the runs over every report at the default place, and over few reports nowhere
Init ==
    \E d \in BOOLEAN, stale \in BOOLEAN, hasFiles \in BOOLEAN,
       ms \in SeqsUpTo(MutantPool, MaxMutants), n \in 0..MaxFiles :
        \E cuts \in [1..(n - 1) -> 0..Len(ms)] :
            /\ WellCut(ms, n, cuts)
            /\ (~hasFiles => n = 0)
            /\ (~d => hasFiles /\ n = 0)
            /\ InitWith(FALSE, NoFiles, d, ReportOf(hasFiles, ms, n, cuts),
                        stale, IF stale THEN StaleFiles ELSE NoFiles)

\* the runs over every content of StrykerOutput, with few reports
InitLocate ==
    \E b \in BOOLEAN, names \in SUBSET DirNames, d \in BOOLEAN, rep \in FewReports :
        /\ Cardinality(names) <= MaxSubdirs
        /\ (~b => names = {})
        /\ \E e \in SubdirChoices(names) : InitWith(b, e, d, rep, FALSE, NoFiles)

(***************************************************************************)
(* generate_prompts_by_mutator and the script                              *)
(***************************************************************************)
\* a filter that also skips a survivor lacking a mandatory key
IsSkipped_IncompleteToo(mutant) ==
    mutant.status[1] # "Survived" \/ mutant.line = None \/ mutant.mutatorName = None

\* a filter that only skips the killed mutants lacking a location
IsSkipped_OnlyWithoutLine(mutant) == mutant.status[1] # "Survived" /\ mutant.line = None

\* mutant["status"] != "Survived", for a mutant that has a status
IsSkipped(mutant) == mutant.status[1] # "Survived"

\* the lookups of a surviving mutant that raise KeyError
MissingKey(mutant) == mutant.line = None \/ mutant.mutatorName = None

\* file_data.get("source", "")
SourceOf(file_data) == IF file_data.source = None THEN <<>> ELSE file_data.source[1]

\* mutant.get("replacement", "N/A")
MutatedOf(mutant) == IF mutant.replacement = None THEN NA ELSE mutant.replacement[1]

\* the f-string: the five values it substitutes, in the order of the template
FormatPrompt(local_path, line, mutator, original, mutated) ==
    <<local_path, line, mutator, original, mutated>>

\* prompts_by_mutator[mutator].append(prompt): a new key goes last
AppendPrompt(keys, byMutator, mutator, prompt) ==
    IF mutator \in DOMAIN byMutator
    THEN [keys |-> keys,
          groups |-> [byMutator EXCEPT ![mutator] = Append(@, prompt)]]
    ELSE [keys |-> Append(keys, mutator),
          groups |-> [k \in DOMAIN byMutator \cup {mutator} |->
                         IF k = mutator THEN <<prompt>> ELSE byMutator[k]]]

Separator == <<"\n---\n">>

\* "\n---\n".join(prompts)
RECURSIVE JoinPrompts(_)
JoinPrompts(prompts) ==
    IF prompts = <<>> THEN <<>>
    ELSE IF Len(prompts) = 1 THEN <<prompts[1]>>
    ELSE <<prompts[1], Separator>> \o JoinPrompts(Tail(prompts))

\* a write that appends to the file it finds
WriteText_Append(files, name, text) ==
    [n \in DOMAIN files \cup {name} |->
        IF n = name
        THEN (IF n \in DOMAIN files THEN files[n] \o text ELSE text)
        ELSE files[n]]

\* Path.write_text: the file holds the text and nothing else
WriteText(files, name, text) ==
    [n \in DOMAIN files \cup {name} |-> IF n = name THEN text ELSE files[n]]

\* a mkdir that creates nothing
MkdirExistOk_NoCreate(exists) == exists

\* output_dir.mkdir(parents=True, exist_ok=True)
MkdirExistOk(exists) == TRUE

Main ==
    /\ pc = "main"
    /\ LET r == get_latest_report_path(baseExists, subdirs, defaultExists)
       IN  IF r.raised
           THEN /\ pc' = "not_found"
                /\ UNCHANGED reportPath
           ELSE /\ pc' = "load"
                /\ reportPath' = r.value
    /\ UNCHANGED <<baseExists, subdirs, defaultExists, report, dirExists, outFiles,
                   startFs, run, fi, mi, groupKeys, groups, wi, printed, args, ret>>

Load ==
    /\ pc = "load"
    /\ IF report.hasFiles
       THEN /\ pc' = "pass"
            /\ fi' = 1
            /\ mi' = 1
       ELSE /\ pc' = "error"
            /\ UNCHANGED <<fi, mi>>
    /\ groupKeys' = <<>>
    /\ groups' = NoFiles
    /\ UNCHANGED <<baseExists, subdirs, defaultExists, report, dirExists, outFiles,
                   startFs, run, reportPath, wi, printed, args, ret>>

ProcessMutant ==
    /\ pc = "pass"
    /\ fi <= Len(report.files)
    /\ mi <= Len(report.files[fi].mutants)
    /\ LET file_data == report.files[fi]
           mutant == file_data.mutants[mi]
           local_path == LocalPathOf(file_data.path, BasePathToStrip)
       IN  IF mutant.status = None
           THEN /\ pc' = "error"
                /\ UNCHANGED <<mi, groupKeys, groups>>
           ELSE IF IsSkipped(mutant)
           THEN /\ mi' = mi + 1
                /\ UNCHANGED <<pc, groupKeys, groups>>
           ELSE IF MissingKey(mutant)
           THEN /\ pc' = "error"
                /\ UNCHANGED <<mi, groupKeys, groups>>
           ELSE LET line == mutant.line[1]
                    original == extract_original_line(SourceOf(file_data), line)
                    mutator == mutant.mutatorName[1]
                IN  IF original.raised
                    THEN /\ pc' = "error"
                         /\ UNCHANGED <<mi, groupKeys, groups>>
                    ELSE LET prompt == FormatPrompt(local_path, line, mutator,
                                                    original.value, MutatedOf(mutant))
                             added == AppendPrompt(groupKeys, groups, mutator, prompt)
                         IN  /\ groupKeys' = added.keys
                             /\ groups' = added.groups
                             /\ mi' = mi + 1
                             /\ UNCHANGED pc
    /\ UNCHANGED <<baseExists, subdirs, defaultExists, report, dirExists, outFiles,
                   startFs, run, reportPath, fi, wi, printed, args, ret>>

NextFile ==
    /\ pc = "pass"
    /\ fi <= Len(report.files)
    /\ mi > Len(report.files[fi].mutants)
    /\ fi' = fi + 1
    /\ mi' = 1
    /\ UNCHANGED <<baseExists, subdirs, defaultExists, report, dirExists, outFiles,
                   startFs, pc, run, reportPath, groupKeys, groups, wi, printed,
                   args, ret>>

Mkdir ==
    /\ pc = "pass"
    /\ fi > Len(report.files)
    /\ dirExists' = MkdirExistOk(dirExists)
    /\ wi' = 1
    /\ pc' = "write"
    /\ UNCHANGED <<baseExists, subdirs, defaultExists, report, outFiles, startFs,
                   run, reportPath, fi, mi, groupKeys, groups, printed, args, ret>>

WriteFile ==
    /\ pc = "write"
    /\ wi <= Len(groupKeys)
    /\ LET mutator == groupKeys[wi]
       IN  outFiles' = WriteText(outFiles, FileNameOf(mutator), JoinPrompts(groups[mutator]))
    /\ wi' = wi + 1
    /\ UNCHANGED <<baseExists, subdirs, defaultExists, report, dirExists, startFs,
                   pc, run, reportPath, fi, mi, groupKeys, groups, printed, args, ret>>

Finish ==
    /\ pc = "write"
    /\ wi > Len(groupKeys)
    /\ printed' = <<Len(groupKeys)>>
    /\ pc' = "done"
    /\ UNCHANGED <<baseExists, subdirs, defaultExists, report, dirExists, outFiles,
                   startFs, run, reportPath, fi, mi, groupKeys, groups, wi, args, ret>>

\* the script is started again, on the same report and output directory
Rerun ==
    /\ pc \in {"done", "error", "not_found"}
    /\ run < MaxRuns
    /\ run' = run + 1
    /\ startFs' = Fs(dirExists, outFiles)
    /\ pc' = "main"
    /\ reportPath' = <<>>
    /\ fi' = 0 /\ mi' = 0
    /\ groupKeys' = <<>>
    /\ groups' = NoFiles
    /\ wi' = 0
    /\ printed' = <<>>
    /\ UNCHANGED <<baseExists, subdirs, defaultExists, report, dirExists, outFiles,
                   args, ret>>

Next ==
    \/ Main
    \/ Load
    \/ ProcessMutant
    \/ NextFile
    \/ Mkdir
    \/ WriteFile
    \/ Finish
    \/ Rerun

Spec == Init /\ [][Next]_vars

SpecLocate == InitLocate /\ [][Next]_vars

(***************************************************************************)
(* What the report says, for the statements below                          *)
(***************************************************************************)
\* the mutants of the file entries from the i-th on, in report order
RECURSIVE EntriesFrom(_, _)
EntriesFrom(files, i) ==
    IF i > Len(files) THEN <<>>
    ELSE [m \in 1..Len(files[i].mutants) |-> [f |-> i, mutant |-> files[i].mutants[m]]]
         \o EntriesFrom(files, i + 1)

Entries == EntriesFrom(report.files, 1)

\* the entries the pass has gone through
RECURSIVE CountBefore(_)
CountBefore(f) == IF f = 0 THEN 0 ELSE Len(report.files[f].mutants) + CountBefore(f - 1)

Processed ==
    IF fi = 0 THEN <<>>
    ELSE IF fi > Len(report.files) THEN Entries
    ELSE SubSeq(Entries, 1, CountBefore(fi - 1) + mi - 1)

HasStatus(e, status) == e.mutant.status = Some(status)

Complete(e) == e.mutant.line # None /\ e.mutant.mutatorName # None

EntryPrompt(e) ==
    LET file_data == report.files[e.f]
    IN  FormatPrompt(LocalPathOf(file_data.path, BasePathToStrip),
                     e.mutant.line[1],
                     e.mutant.mutatorName[1],
                     extract_original_line(SourceOf(file_data), e.mutant.line[1]).value,
                     MutatedOf(e.mutant))

\* the prompts of the surviving mutants named name among es, in order
RECURSIVE SurvivorPrompts(_, _)
SurvivorPrompts(name, es) ==
    IF es = <<>> THEN <<>>
    ELSE (IF HasStatus(Head(es), "Survived") /\ Complete(Head(es))
             /\ Head(es).mutant.mutatorName[1] = name
          THEN <<EntryPrompt(Head(es))>>
          ELSE <<>>) \o SurvivorPrompts(name, Tail(es))

SurvivorNames(es) ==
    {es[i].mutant.mutatorName[1] :
        i \in {j \in 1..Len(es) : HasStatus(es[j], "Survived") /\ Complete(es[j])}}

FsUnchanged == dirExists = startFs.dir /\ outFiles = startFs.files

(***************************************************************************)
(* C1: the file name of a group is the lower-cased mutator name with every *)
(* maximal run of non-word characters replaced by one underscore, followed *)
(* by "_prompts.txt".                                                      *)
(***************************************************************************)
C1_UnderscorePerRun ==
    pc = "returned" =>
        ret = ReSubNonWordRuns(<<"_">>, LowerStr(args[1])) \o Suffix

(***************************************************************************)
(* C2: extract_original_line never raises; it returns the stripped line    *)
(* for a line number within 1..lineCount and "N/A" for every other one.    *)
(***************************************************************************)
C2_TotalWithSentinel ==
    pc = "returned" =>
        LET lines == SplitLines(args[1])
        IN  /\ ~ret.raised
            /\ ret.value = IF args[2] >= 1 /\ args[2] <= Len(lines)
                           THEN Strip(lines[args[2]])
                           ELSE NA

(***************************************************************************)
(* C3: the local path is the file path without the prefix when the path    *)
(* starts with it, and the file path itself otherwise; an occurrence of    *)
(* the prefix later in the path is never removed.                          *)
(***************************************************************************)
C3_PrefixOnlyAtStart ==
    pc = "returned" =>
        LET p == args[1]
            b == args[2]
        IN  ret = IF Len(b) <= Len(p) /\ SubSeq(p, 1, Len(b)) = b
                  THEN SubSeq(p, Len(b) + 1, Len(p))
                  ELSE p

(***************************************************************************)
(* C4: after a successful run there is one output file per group: no two   *)
(* distinct mutator names have the same file name, as many files are       *)
(* written as there are distinct names among the surviving mutants, and    *)
(* the file of each group holds the prompts of that group.                 *)
(***************************************************************************)
C4_OneFilePerGroup ==
    pc = "done" =>
        /\ \A k1, k2 \in DOMAIN groups : k1 # k2 => FileNameOf(k1) # FileNameOf(k2)
        /\ Cardinality({FileNameOf(k) : k \in DOMAIN groups})
               = Cardinality(SurvivorNames(Entries))
        /\ \A k \in DOMAIN groups :
               /\ FileNameOf(k) \in DOMAIN outFiles
               /\ outFiles[FileNameOf(k)] = JoinPrompts(groups[k])

(***************************************************************************)
(* C5: at every point of the pass the groups hold exactly the prompts of   *)
(* the mutants gone through whose status is "Survived", each under its own *)
(* mutator name and in report order; and the step over a mutant with       *)
(* another status only moves on to the next mutant: no prompt, no group,   *)
(* no error and no change of the output directory, whatever its other      *)
(* fields are.                                                             *)
(***************************************************************************)
C5_GroupsAreSurvivors ==
    /\ DOMAIN groups = SurvivorNames(Processed)
    /\ \A k \in DOMAIN groups : groups[k] = SurvivorPrompts(k, Processed)

AtOtherStatus ==
    /\ pc = "pass"
    /\ fi <= Len(report.files)
    /\ mi <= Len(report.files[fi].mutants)
    /\ report.files[fi].mutants[mi].status # None
    /\ report.files[fi].mutants[mi].status # Some("Survived")

C5_SurvivedOnly ==
    /\ []C5_GroupsAreSurvivors
    /\ [][AtOtherStatus =>
             /\ pc' = "pass" /\ fi' = fi /\ mi' = mi + 1
             /\ UNCHANGED <<groupKeys, groups, dirExists, outFiles>>]_vars

C5_Witness ==
    /\ pc = "pass"
    /\ \E i \in 1..Len(Processed) :
           /\ HasStatus(Processed[i], "Killed")
           /\ Processed[i].mutant.mutatorName = None
    /\ \E i \in 1..Len(Processed) :
           /\ HasStatus(Processed[i], "Killed")
           /\ Processed[i].mutant.mutatorName # None
    /\ DOMAIN groups # {}

(***************************************************************************)
(* C6: after a successful run, for every mutator name among the surviving  *)
(* mutants, its output file holds exactly the prompts of the surviving     *)
(* mutants of that name, in report order, joined by the separator.         *)
(***************************************************************************)
C6_FileHoldsGroupInOrder ==
    pc = "done" =>
        \A name \in SurvivorNames(Entries) :
            /\ FileNameOf(name) \in DOMAIN outFiles
            /\ outFiles[FileNameOf(name)] = JoinPrompts(SurvivorPrompts(name, Entries))

(***************************************************************************)
(* C7, as stated: if the report lacks the 'files' key, or some mutant      *)
(* record lacks location.start.line or mutatorName, the run does not       *)
(* complete and the output directory is as it was before the run.          *)
(***************************************************************************)
LacksMandatory(e) == ~Complete(e)

C7_AnyIncompleteMutantAborts ==
    (~report.hasFiles \/ \E i \in 1..Len(Entries) : LacksMandatory(Entries[i]))
        => /\ pc \notin {"write", "done"}
           /\ FsUnchanged

(***************************************************************************)
(* C7, amended: if the report lacks the 'files' key, or some mutant record *)
(* with status "Survived" lacks location.start.line or mutatorName, the    *)
(* pass never reaches its end, so that the run can only stop with the      *)
(* error, and the output directory is as it was before the run: not        *)
(* created, no file written or overwritten.                                *)
(***************************************************************************)
Malformed ==
    \/ ~report.hasFiles
    \/ \E i \in 1..Len(Entries) :
           HasStatus(Entries[i], "Survived") /\ LacksMandatory(Entries[i])

C7_IncompleteSurvivorAborts ==
    Malformed =>
        /\ pc \notin {"write", "done"}
        /\ ~(pc = "pass" /\ fi > Len(report.files))
        /\ FsUnchanged

C7_Witness ==
    /\ pc = "error"
    /\ report.hasFiles
    /\ Malformed
    /\ DOMAIN groups # {}
    /\ ~dirExists

(***************************************************************************)
(* C8: get_latest_report_path returns the report of the entry of           *)
(* StrykerOutput whose name is the greatest, in lexicographic order, among *)
(* the entries that hold coverage/stryker.json; it returns the default     *)
(* path only when there is no such entry and the default exists; it raises *)
(* exactly when there is no candidate, and then the script stops: nothing  *)
(* is loaded and no output directory is created.                           *)
(***************************************************************************)
WithReport == IF baseExists THEN {n \in DOMAIN subdirs : subdirs[n]} ELSE {}

NoSurvivor == \A i \in 1..Len(Entries) : ~HasStatus(Entries[i], "Survived")

C9_EmptyDirectory ==
    (pc = "done" /\ NoSurvivor) => (dirExists /\ DOMAIN outFiles = {})

(***************************************************************************)
(* C9, amended: over a report that has the 'files' key and in which every  *)
(* mutant has a status other than "Survived", the run never stops with an  *)
(* error, and when it is done the output directory exists (created if it   *)
(* was missing) and holds exactly the files it held before the run, with   *)
(* the same contents: none if it was missing or empty.                     *)
(***************************************************************************)
OnlyOtherStatuses ==
    /\ report.hasFiles
    /\ \A i \in 1..Len(Entries) :
           Entries[i].mutant.status # None /\ ~HasStatus(Entries[i], "Survived")

C9_NoFileWritten ==
    OnlyOtherStatuses =>
        /\ pc # "error"
        /\ pc = "done" =>
              /\ dirExists
              /\ outFiles = startFs.files
              /\ (~startFs.dir => DOMAIN outFiles = {})

C9_Witness ==
    /\ pc = "done"
    /\ run = 1
    /\ OnlyOtherStatuses
    /\ Len(Entries) >= 2
    /\ ~startFs.dir
    /\ dirExists
    /\ DOMAIN outFiles = {}

(***************************************************************************)
(* C10: a second run over the same report, output directory and prefix     *)
(* leaves the output directory as the first run left it: the same file     *)
(* names with the same contents.                                           *)
(***************************************************************************)
C10_SecondRunChangesNothing ==
    (run >= 2 /\ pc = "done") => FsUnchanged

C10_Witness ==
    /\ run = 2
    /\ pc = "done"
    /\ Cardinality(DOMAIN groups) >= 2
    /\ \E k \in DOMAIN groups : Len(groups[k]) >= 2
    /\ <<"notes.txt">> \in DOMAIN outFiles
====
